---- MODULE Spec2Model ----
(***************************************************************************)
(* Page visit time tracking of applicationinsights-analytics-js:           *)
(* PageVisitTimeManager and PageVisitData (PageVisitTimeManager.ts).       *)
(*                                                                         *)
(* The manager keeps no timing state of its own: the record of the page    *)
(* being timed lives in session storage under one key, as a JSON string.   *)
(* Session storage, JSON and the clock are the environment; every public   *)
(* method is one atomic action (JavaScript runs a call to completion).     *)
(***************************************************************************)
EXTENDS Integers, Sequences, FiniteSets, TLC

VARIABLES
    sessionStorage,  \* the session store: key -> JsNull (absent) or JsString
    canUse,          \* what utlCanUseSessionStorage() answers now
    clock,           \* what dateNow() answers now
    managers,        \* the PageVisitTimeManager instances constructed so far
    lastOp,          \* observation: the last public call, its inputs and outcome
    prevOp,          \* observation: the public call before lastOp
    ledger,          \* history: the record a start wrote and how often it was handed out
    elapsed,         \* history: the time of the first start, the durations handed out
    race             \* two browsing contexts inside their calls, step by step

vars == <<sessionStorage, canUse, clock, managers, lastOp, prevOp, ledger, elapsed, race>>

----------------------------------------------------------------------------
(* Bounds of the model. *)

MaxClock == 2
NumInstances == 2
MaxRaceWrites == 2

\* The pages a caller names: (name, url) pairs.
Pages == {[name |-> "p1", url |-> "u1"], [name |-> "p2", url |-> "u2"]}

\* The manager's key and one unrelated key of the same store.
StorageKeys == {"prevPageVisitData", "otherData"}

----------------------------------------------------------------------------
(* JavaScript values. *)

JsNull == [kind |-> "null"]
JsUndefined == [kind |-> "undefined"]
JsString(chars) == [kind |-> "string", chars |-> chars]
JsObject(obj) == [kind |-> "object", obj |-> obj]

\* JavaScript truthiness of the values above: null, undefined and "" are falsy.
Truthy(v) ==
    \/ v.kind = "object"
    \/ v.kind = "string" /\ v.chars # <<>>

----------------------------------------------------------------------------
(* PageVisitData and its JSON text.  A JSON text is a sequence of tokens:   *)
(* "{", one token per member in property order, "}".                        *)

NumberFields == {"pageVisitStartTime", "pageVisitTime"}

\* Property order of a PageVisitData: the constructor assigns
\* pageVisitStartTime, pageName, pageUrl; stop adds pageVisitTime last.
FieldOrder == <<"pageVisitStartTime", "pageName", "pageUrl", "pageVisitTime">>

\* Mutation: the constructor stores its two arguments crosswise.
PageVisitDataSwapped(pageName, pageUrl, now) ==
    [pageVisitStartTime |-> now, pageName |-> pageUrl, pageUrl |-> pageName]

\* Mutation: the constructor initialises pageVisitTime.
PageVisitDataWithDuration(pageName, pageUrl, now) ==
    [pageVisitStartTime |-> now, pageName |-> pageName, pageUrl |-> pageUrl,
     pageVisitTime |-> 0]

\* new PageVisitData(pageName, pageUrl), dateNow() answering now.
\* pageVisitTime is declared but never assigned: the property does not exist.
PageVisitData(pageName, pageUrl, now) ==
    [pageVisitStartTime |-> now, pageName |-> pageName, pageUrl |-> pageUrl]

LBrace == [key |-> "{", tag |-> "punct", num |-> 0, str |-> ""]
RBrace == [key |-> "}", tag |-> "punct", num |-> 0, str |-> ""]

Member(obj, k) ==
    IF k \in NumberFields
    THEN [key |-> k, tag |-> "num", num |-> obj[k], str |-> ""]
    ELSE [key |-> k, tag |-> "str", num |-> 0, str |-> obj[k]]

\* getJSON().stringify(obj): the own properties of obj, in property order.
stringify(obj) ==
    LET present == SelectSeq(FieldOrder, LAMBDA k : k \in DOMAIN obj)
    IN  <<LBrace>> \o [n \in 1..Len(present) |-> Member(obj, present[n])] \o <<RBrace>>

\* Whether getJSON().parse accepts the text.
WellFormed(chars) ==
    /\ Len(chars) >= 2
    /\ chars[1] = LBrace
    /\ chars[Len(chars)] = RBrace
    /\ \A n \in 2..(Len(chars) - 1) : chars[n].tag \in {"num", "str"}

\* getJSON().parse(chars) of a well-formed text: the object with the members'
\* keys; a repeated key keeps its last value.
parse(chars) ==
    LET inner == 2..(Len(chars) - 1)
        last(k) == CHOOSE n \in inner :
                       /\ chars[n].key = k
                       /\ \A m \in inner : chars[m].key = k => m <= n
    IN  [k \in {chars[n].key : n \in inner} |->
            IF chars[last(k)].tag = "num" THEN chars[last(k)].num ELSE chars[last(k)].str]

----------------------------------------------------------------------------
(* Session storage helpers (applicationinsights-common).  A helper whose    *)
(* site is in the fault set of a call raises instead of acting.            *)

utlCanUseSessionStorage(can) == can

utlGetSessionStorage(store, name) == store[name]

utlSetSessionStorage(store, name, data) == [store EXCEPT ![name] = JsString(data)]

utlRemoveSessionStorage(store, name) == [store EXCEPT ![name] = JsNull]

\* The places of one call where the environment can fail.  "noJSON" is
\* hasJSON() answering false; "startCannotUse" is session storage that was
\* usable when the call began answering unusable to the start phase.
StopSites == {"stopGet", "noJSON", "parse", "remove"}
StartSites == {"startCannotUse", "startGet", "stringify", "set"}
HandlerSites == {"handler"}
FaultSites == StopSites \cup StartSites \cup HandlerSites

\* A call meets at most one failure in its stop phase and one in its start
\* phase: the first failure of a phase ends the phase.
FaultSets ==
    {F \in SUBSET FaultSites :
        /\ Cardinality(F \cap StopSites) <= 1
        /\ Cardinality(F \cap StartSites) <= 1}

----------------------------------------------------------------------------
(* Outcomes of a call: the store it leaves, what it returns or that it      *)
(* raised, the warnings it logged, the handler calls it made, the places    *)
(* that raised, whether it wrote a new record, what its internal stop        *)
(* returned (restart) and what the slot held when the handler was invoked.  *)

Returned(store, ret) ==
    [store |-> store, ret |-> ret, threw |-> FALSE,
     warned |-> <<>>, reported |-> <<>>, fired |-> {}, wrote |-> FALSE,
     stopped |-> JsUndefined, seen |-> JsUndefined]

Raised(store, site) ==
    [store |-> store, ret |-> JsUndefined, threw |-> TRUE,
     warned |-> <<>>, reported |-> <<>>, fired |-> {site}, wrote |-> FALSE,
     stopped |-> JsUndefined, seen |-> JsUndefined]

\* The one element of a singleton set; Only({e(x) : x \in {v}}) is e(v) with v
\* evaluated once.
Only(S) == CHOOSE x \in S : TRUE

\* catch (e) { logger.warnToConsole(message ...); return ret; }
Catch(outcome, message, ret) ==
    Only({IF o.threw
          THEN [o EXCEPT !.threw = FALSE, !.ret = ret,
                         !.warned = Append(o.warned, message)]
          ELSE o : o \in {outcome}})

----------------------------------------------------------------------------
(* PageVisitTimeManager *)

\* Mutation: each instance derives its own storage key.
PageVisitTimeManagerOwnKey(logger, pageVisitTimeTrackingHandler) ==
    [prevPageVisitDataKeyName |-> IF logger = 1 THEN "prevPageVisitData" ELSE "otherData",
     pageVisitTimeTrackingHandler |-> pageVisitTimeTrackingHandler,
     _logger |-> logger]

\* constructor(logger, pageVisitTimeTrackingHandler)
PageVisitTimeManager(logger, pageVisitTimeTrackingHandler) ==
    [prevPageVisitDataKeyName |-> "prevPageVisitData",
     pageVisitTimeTrackingHandler |-> pageVisitTimeTrackingHandler,
     _logger |-> logger]

\* Mutation: stop returns the record without removing it from storage.
stopTryNoRemove(self, store, can, now, F) ==
    IF ~utlCanUseSessionStorage(can) THEN Returned(store, JsNull)
    ELSE IF "stopGet" \in F THEN Raised(store, "stopGet")
    ELSE LET pageVisitDataJsonStr ==
                 utlGetSessionStorage(store, self.prevPageVisitDataKeyName)
         IN  IF ~(Truthy(pageVisitDataJsonStr) /\ "noJSON" \notin F)
             THEN Returned(store, JsNull)
             ELSE IF "parse" \in F \/ ~WellFormed(pageVisitDataJsonStr.chars)
             THEN Raised(store, "parse")
             ELSE LET parsed == parse(pageVisitDataJsonStr.chars)
                  IN  Returned(store,
                               JsObject([k \in DOMAIN parsed \cup {"pageVisitTime"} |->
                                            IF k = "pageVisitTime"
                                            THEN now - parsed.pageVisitStartTime
                                            ELSE parsed[k]]))

\* The try block of stopPageVisitTimer.
stopTry(self, store, can, now, F) ==
    IF ~utlCanUseSessionStorage(can) THEN Returned(store, JsNull)
    ELSE IF "stopGet" \in F THEN Raised(store, "stopGet")
    ELSE LET pageVisitDataJsonStr ==
                 utlGetSessionStorage(store, self.prevPageVisitDataKeyName)
         IN  IF ~(Truthy(pageVisitDataJsonStr) /\ "noJSON" \notin F)
             THEN Returned(store, JsNull)
             ELSE IF "parse" \in F \/ ~WellFormed(pageVisitDataJsonStr.chars)
             THEN Raised(store, "parse")
             ELSE LET parsed == parse(pageVisitDataJsonStr.chars)
                      prevPageVisitData ==
                          [k \in DOMAIN parsed \cup {"pageVisitTime"} |->
                              IF k = "pageVisitTime"
                              THEN now - parsed.pageVisitStartTime
                              ELSE parsed[k]]
                  IN  IF "remove" \in F THEN Raised(store, "remove")
                      ELSE Returned(
                               utlRemoveSessionStorage(store, self.prevPageVisitDataKeyName),
                               JsObject(prevPageVisitData))

stopPageVisitTimer(self, store, can, now, F) ==
    Catch(stopTry(self, store, can, now, F), "Stop page visit timer failed", JsNull)

\* Mutation: start does not look for a record already in the slot.
startTryOverwrite(self, store, can, now, pageName, pageUrl, F) ==
    IF ~utlCanUseSessionStorage(can) THEN Returned(store, JsUndefined)
    ELSE IF "startGet" \in F THEN Raised(store, "startGet")
    ELSE IF "stringify" \in F THEN Raised(store, "stringify")
    ELSE IF "set" \in F THEN Raised(store, "set")
    ELSE [Returned(utlSetSessionStorage(store, self.prevPageVisitDataKeyName,
                                        stringify(PageVisitData(pageName, pageUrl, now))),
                   JsUndefined)
             EXCEPT !.wrote = TRUE]

\* Mutation: start does not ask whether session storage can be used.
startTryNoCanUse(self, store, can, now, pageName, pageUrl, F) ==
    IF "startGet" \in F THEN Raised(store, "startGet")
    ELSE IF utlGetSessionStorage(store, self.prevPageVisitDataKeyName) # JsNull
    THEN Raised(store, "throwError")
    ELSE IF "stringify" \in F THEN Raised(store, "stringify")
    ELSE IF "set" \in F THEN Raised(store, "set")
    ELSE [Returned(utlSetSessionStorage(store, self.prevPageVisitDataKeyName,
                                        stringify(PageVisitData(pageName, pageUrl, now))),
                   JsUndefined)
             EXCEPT !.wrote = TRUE]

\* The try block of startPageVisitTimer.
startTry(self, store, can, now, pageName, pageUrl, F) ==
    IF ~utlCanUseSessionStorage(can /\ "startCannotUse" \notin F)
    THEN Returned(store, JsUndefined)
    ELSE IF "startGet" \in F THEN Raised(store, "startGet")
    ELSE IF utlGetSessionStorage(store, self.prevPageVisitDataKeyName) # JsNull
    THEN Raised(store, "throwError")
    ELSE IF "stringify" \in F THEN Raised(store, "stringify")
    ELSE IF "set" \in F THEN Raised(store, "set")
    ELSE LET currPageVisitData == PageVisitData(pageName, pageUrl, now)
             currPageVisitDataStr == stringify(currPageVisitData)
         IN  [Returned(utlSetSessionStorage(store, self.prevPageVisitDataKeyName,
                                            currPageVisitDataStr),
                       JsUndefined)
                 EXCEPT !.wrote = TRUE]

\* Mutation: the catch of startPageVisitTimer is removed (the TODO of the
\* source asks for that in a next phase).
startPageVisitTimerNoCatch(self, store, can, now, pageName, pageUrl, F) ==
    startTry(self, store, can, now, pageName, pageUrl, F)

startPageVisitTimer(self, store, can, now, pageName, pageUrl, F) ==
    Catch(startTry(self, store, can, now, pageName, pageUrl, F),
          "Call to start failed", JsUndefined)

\* Mutation: restart starts the new page before it stops the previous one.
restartTryStartFirst(self, store, can, stopNow, startNow, pageName, pageUrl, F) ==
    Only({
        IF started.threw THEN started
        ELSE Only({
            [store |-> prevPageVisitData.store,
             ret |-> IF prevPageVisitData.threw THEN JsUndefined ELSE prevPageVisitData.ret,
             threw |-> prevPageVisitData.threw,
             warned |-> started.warned \o prevPageVisitData.warned,
             reported |-> <<>>,
             fired |-> started.fired \cup prevPageVisitData.fired,
             wrote |-> started.wrote,
             stopped |-> prevPageVisitData.ret,
             seen |-> JsUndefined]
            : prevPageVisitData \in {stopPageVisitTimer(self, started.store, can,
                                                        startNow, F)}})
        : started \in {startPageVisitTimer(self, store, can, stopNow, pageName, pageUrl, F)}})

\* Mutation: restart stops the previous page and forgets to start the new one.
restartTryNoStart(self, store, can, stopNow, startNow, pageName, pageUrl, F) ==
    stopPageVisitTimer(self, store, can, stopNow, F)

\* Mutation: the end time of the previous page is read after the start time
\* of the new page.
restartTryLateEnd(self, store, can, stopNow, startNow, pageName, pageUrl, F) ==
    Only({
        IF prevPageVisitData.threw THEN prevPageVisitData
        ELSE Only({
            [store |-> started.store,
             ret |-> IF started.threw THEN JsUndefined ELSE prevPageVisitData.ret,
             threw |-> started.threw,
             warned |-> prevPageVisitData.warned \o started.warned,
             reported |-> <<>>,
             fired |-> prevPageVisitData.fired \cup started.fired,
             wrote |-> started.wrote,
             stopped |-> prevPageVisitData.ret,
             seen |-> JsUndefined]
            : started \in {startPageVisitTimer(self, prevPageVisitData.store, can,
                                               stopNow, pageName, pageUrl, F)}})
        : prevPageVisitData \in {stopPageVisitTimer(self, store, can, startNow, F)}})

\* The try block of restartPageVisitTimer: stop reads the clock at stopNow,
\* the new record's constructor at startNow.
restartTry(self, store, can, stopNow, startNow, pageName, pageUrl, F) ==
    Only({
        IF prevPageVisitData.threw THEN prevPageVisitData
        ELSE Only({
            [store |-> started.store,
             ret |-> IF started.threw THEN JsUndefined ELSE prevPageVisitData.ret,
             threw |-> started.threw,
             warned |-> prevPageVisitData.warned \o started.warned,
             reported |-> <<>>,
             fired |-> prevPageVisitData.fired \cup started.fired,
             wrote |-> started.wrote,
             stopped |-> prevPageVisitData.ret,
             seen |-> JsUndefined]
            : started \in {startPageVisitTimer(self, prevPageVisitData.store, can,
                                               startNow, pageName, pageUrl, F)}})
        : prevPageVisitData \in {stopPageVisitTimer(self, store, can, stopNow, F)}})

restartPageVisitTimer(self, store, can, stopNow, startNow, pageName, pageUrl, F) ==
    Catch(restartTry(self, store, can, stopNow, startNow, pageName, pageUrl, F),
          "Call to restart failed", JsNull)

\* Mutation: the handler is given the name and URL of the current page.
trackTryReportsCurrent(self, store, can, stopNow, startNow, currentPageName, currentPageUrl, F) ==
    Only({
        IF restarted.threw \/ ~Truthy(restarted.ret)
        THEN [restarted EXCEPT !.ret = JsUndefined]
        ELSE [restarted EXCEPT
                 !.ret = JsUndefined,
                 !.reported = <<[handler |-> self.pageVisitTimeTrackingHandler,
                                 pageName |-> currentPageName,
                                 pageUrl |-> currentPageUrl,
                                 pageVisitTime |-> restarted.ret.obj.pageVisitTime]>>,
                 !.seen = restarted.store[self.prevPageVisitDataKeyName],
                 !.threw = "handler" \in F,
                 !.fired = IF "handler" \in F THEN @ \cup {"handler"} ELSE @]
        : restarted \in {restartPageVisitTimer(self, store, can, stopNow, startNow,
                                                currentPageName, currentPageUrl, F)}})

\* Mutation: the handler is invoked between the stop and the start.
trackTryReportsBeforeStart(self, store, can, stopNow, startNow, currentPageName, currentPageUrl, F) ==
    Only({
        Only({
            IF ~Truthy(prev.ret)
            THEN [started EXCEPT !.warned = prev.warned \o @,
                                 !.fired = prev.fired \cup @]
            ELSE [started EXCEPT
                     !.warned = prev.warned \o @,
                     !.reported = <<[handler |-> self.pageVisitTimeTrackingHandler,
                                     pageName |-> prev.ret.obj.pageName,
                                     pageUrl |-> prev.ret.obj.pageUrl,
                                     pageVisitTime |-> prev.ret.obj.pageVisitTime]>>,
                     !.seen = prev.store[self.prevPageVisitDataKeyName],
                     !.threw = "handler" \in F,
                     !.fired = IF "handler" \in F THEN prev.fired \cup @ \cup {"handler"}
                                                  ELSE prev.fired \cup @]
            : started \in {startPageVisitTimer(self, prev.store, can, startNow,
                                               currentPageName, currentPageUrl, F)}})
        : prev \in {stopPageVisitTimer(self, store, can, stopNow, F)}})

\* The try block of trackPreviousPageVisit.
trackTry(self, store, can, stopNow, startNow, currentPageName, currentPageUrl, F) ==
    Only({
        IF restarted.threw \/ ~Truthy(restarted.ret)
        THEN [restarted EXCEPT !.ret = JsUndefined]
        ELSE [restarted EXCEPT
                 !.ret = JsUndefined,
                 !.reported = <<[handler |-> self.pageVisitTimeTrackingHandler,
                                 pageName |-> restarted.ret.obj.pageName,
                                 pageUrl |-> restarted.ret.obj.pageUrl,
                                 pageVisitTime |-> restarted.ret.obj.pageVisitTime]>>,
                 !.seen = restarted.store[self.prevPageVisitDataKeyName],
                 !.threw = "handler" \in F,
                 !.fired = IF "handler" \in F THEN @ \cup {"handler"} ELSE @]
        : restarted \in {restartPageVisitTimer(self, store, can, stopNow, startNow,
                                                currentPageName, currentPageUrl, F)}})

\* Mutation: the catch of trackPreviousPageVisit is removed.
trackPreviousPageVisitNoCatch(self, store, can, stopNow, startNow, currentPageName, currentPageUrl, F) ==
    trackTry(self, store, can, stopNow, startNow, currentPageName, currentPageUrl, F)

trackPreviousPageVisit(self, store, can, stopNow, startNow, currentPageName, currentPageUrl, F) ==
    Catch(trackTry(self, store, can, stopNow, startNow, currentPageName, currentPageUrl, F),
          "Auto track page visit time failed, metric will not be collected",
          JsUndefined)

----------------------------------------------------------------------------
(* State machine. *)

\* The slot of the manager's key.
Slot == sessionStorage["prevPageVisitData"]

NoOp ==
    [op |-> "none", inst |-> 0, pageName |-> "", pageUrl |-> "", canUse |-> TRUE,
     stopNow |-> 0, startNow |-> 0, before |-> JsNull, after |-> JsNull,
     ret |-> JsUndefined, threw |-> FALSE, warned |-> <<>>, reported |-> <<>>,
     fired |-> {}, faults |-> {}, wrote |-> FALSE,
     stopped |-> JsUndefined, seen |-> JsUndefined]

\* What an observer of one call sees.
Observed(op, i, pageName, pageUrl, stopNow, startNow, F, o) ==
    [op |-> op, inst |-> i, pageName |-> pageName, pageUrl |-> pageUrl,
     canUse |-> canUse, stopNow |-> stopNow, startNow |-> startNow,
     before |-> sessionStorage[managers[i].prevPageVisitDataKeyName],
     after |-> o.store[managers[i].prevPageVisitDataKeyName],
     ret |-> o.ret, threw |-> o.threw, warned |-> o.warned,
     reported |-> o.reported, fired |-> o.fired, faults |-> o.fired \cap F,
     wrote |-> o.wrote, stopped |-> o.stopped, seen |-> o.seen]

\* What is kept of the call before the last one: which call it was, whether
\* it found a page being timed, whether it returned a record, and the record
\* it wrote.
Summary(o) ==
    [op |-> o.op, inst |-> o.inst,
     timing |-> o.before.kind = "string",
     returned |-> o.ret.kind = "object",
     wrote |-> o.wrote,
     pageName |-> IF o.wrote THEN o.pageName ELSE "",
     pageUrl |-> IF o.wrote THEN o.pageUrl ELSE "",
     startNow |-> IF o.wrote THEN o.startNow ELSE 0]

\* The browsing contexts (tabs, frames) that share the session storage.
Contexts == {"A", "B"}

\* A context outside any call.
IdleContext ==
    [pc |-> "idle", pageName |-> "", pageUrl |-> "", pageVisitEndTime |-> 0,
     pageVisitDataJsonStr |-> JsNull, readId |-> 0, ret |-> JsUndefined, retId |-> 0]

\* ctx: each context's position and locals.  The rest is history: the
\* writes so far number the records; slotId and slotWriter are the number
\* and the writer of the record in the slot; once and twice are the records
\* returned at least once and at least twice; displaced are the records
\* that left the slot by a write over them or by the removal of a stop
\* that had read another record; overlapped is whether a context ever
\* took a step while the other was inside a call.
RaceInit ==
    [ctx |-> [c \in Contexts |-> IdleContext],
     writes |-> 0, slotId |-> 0, slotWriter |-> "",
     once |-> {}, twice |-> {}, displaced |-> {}, overlapped |-> FALSE]

Init ==
    /\ sessionStorage = [k \in StorageKeys |-> JsNull]
    /\ canUse = TRUE
    /\ clock = 0
    /\ managers = <<PageVisitTimeManager(1, 1)>>
    /\ lastOp = NoOp
    /\ prevOp = Summary(NoOp)
    /\ ledger = [rec |-> JsNull, out |-> 0, lastRec |-> JsNull, lastOut |-> 0]
    /\ elapsed = [first |-> -1, sum |-> 0]
    /\ race = RaceInit

\* A page reconstruction: new PageVisitTimeManager(logger, handler) over the
\* same session storage.  The constructor touches no storage.
Construct ==
    /\ Len(managers) < NumInstances
    /\ managers' = Append(managers,
                          PageVisitTimeManager(Len(managers) + 1, Len(managers) + 1))
    /\ UNCHANGED <<sessionStorage, canUse, clock, lastOp>>

\* Time passes between calls.
Tick ==
    /\ clock < MaxClock
    /\ clock' = clock + 1
    /\ UNCHANGED <<sessionStorage, canUse, managers, lastOp>>

\* The persistence capability becomes available or unavailable between calls.
StorageAvailabilityChanges ==
    /\ canUse' = ~canUse
    /\ UNCHANGED <<sessionStorage, clock, managers, lastOp>>

Start(i, pageName, pageUrl, F) ==
    \E o \in {startPageVisitTimer(managers[i], sessionStorage, canUse, clock,
                                 pageName, pageUrl, F)} :
        /\ sessionStorage' = o.store
        /\ lastOp' = Observed("start", i, pageName, pageUrl, clock, clock, F, o)
        /\ UNCHANGED <<canUse, clock, managers>>

Stop(i, F) ==
    \E o \in {stopPageVisitTimer(managers[i], sessionStorage, canUse, clock, F)} :
        /\ sessionStorage' = o.store
        /\ lastOp' = Observed("stop", i, "", "", clock, clock, F, o)
        /\ UNCHANGED <<canUse, clock, managers>>

\* d: the time that passes between stop's dateNow() and the new record's.
Restart(i, pageName, pageUrl, d, F) ==
    \E o \in {restartPageVisitTimer(managers[i], sessionStorage, canUse, clock, clock + d,
                                   pageName, pageUrl, F)} :
        /\ clock + d <= MaxClock
        /\ sessionStorage' = o.store
        /\ clock' = clock + d
        /\ lastOp' = Observed("restart", i, pageName, pageUrl, clock, clock + d, F, o)
        /\ UNCHANGED <<canUse, managers>>

TrackPreviousPageVisit(i, currentPageName, currentPageUrl, d, F) ==
    \E o \in {trackPreviousPageVisit(managers[i], sessionStorage, canUse, clock, clock + d,
                                    currentPageName, currentPageUrl, F)} :
        /\ clock + d <= MaxClock
        /\ sessionStorage' = o.store
        /\ clock' = clock + d
        /\ lastOp' = Observed("track", i, currentPageName, currentPageUrl,
                              clock, clock + d, F, o)
        /\ UNCHANGED <<canUse, managers>>

\* One public call by a constructed manager; the environment fails as in F and
\* d in D passes between the two clock readings of a restart.
Call(I, D, StartF, StopF, RestartF, TrackF) ==
    \E i \in I \cap DOMAIN managers :
        \/ \E page \in Pages, F \in StartF : Start(i, page.name, page.url, F)
        \/ \E F \in StopF : Stop(i, F)
        \/ \E page \in Pages, d \in D, F \in RestartF :
               Restart(i, page.name, page.url, d, F)
        \/ \E page \in Pages, d \in D, F \in TrackF :
               TrackPreviousPageVisit(i, page.name, page.url, d, F)

\* The manager of the current page: a page reconstruction leaves the
\* managers of the earlier pages unreachable.
Live == {Len(managers)}

\* Texts another script of the page may leave under the manager's key: the
\* empty string and a truncated JSON text.
ForeignTexts == {<<>>, <<LBrace>>}

\* Another script of the page writes the manager's key.
ForeignWrite ==
    /\ \E text \in ForeignTexts :
           sessionStorage' = utlSetSessionStorage(sessionStorage, "prevPageVisitData", text)
    /\ UNCHANGED <<canUse, clock, managers, lastOp>>

Environment ==
    \/ Tick
    \/ StorageAvailabilityChanges

----------------------------------------------------------------------------
(* Two contexts, one storage operation at a time.  Each context runs its   *)
(* own manager; a step is the code of a call up to and including its next  *)
(* storage operation.                                                      *)

Others(c) == \E d \in Contexts \ {c} : race.ctx[d].pc # "idle"

Starting == {c \in Contexts : race.ctx[c].pc \in {"start70", "start71", "start75"}}

\* The step of context c that leaves it as next and the history as history.
Step(c, next, store, history) ==
    /\ race' = [history EXCEPT !.ctx[c] = next,
                              !.overlapped = @ \/ Others(c)]
    /\ sessionStorage' = store
    /\ UNCHANGED <<canUse, clock, managers, lastOp, prevOp, ledger, elapsed>>

\* Context c calls startPageVisitTimer(pageName, pageUrl).
CallStart(c, pageName, pageUrl) ==
    /\ race.ctx[c].pc = "idle"
    /\ race.writes + Cardinality(Starting) < MaxRaceWrites
    /\ Step(c, [IdleContext EXCEPT !.pc = "start70", !.pageName = pageName,
                                   !.pageUrl = pageUrl],
            sessionStorage, race)

\* if (utlCanUseSessionStorage())
StartCanUse(c) ==
    /\ race.ctx[c].pc = "start70"
    /\ Step(c, IF utlCanUseSessionStorage(canUse)
               THEN [race.ctx[c] EXCEPT !.pc = "start71"]
               ELSE IdleContext,
            sessionStorage, race)

\* if (utlGetSessionStorage(...) != null) throwError(...), caught by start.
StartChecks(c) ==
    LET self == PageVisitTimeManager(c, c) IN
    /\ race.ctx[c].pc = "start71"
    /\ Step(c, IF utlGetSessionStorage(sessionStorage, self.prevPageVisitDataKeyName) # JsNull
               THEN IdleContext
               ELSE [race.ctx[c] EXCEPT !.pc = "start75"],
            sessionStorage, race)

\* new PageVisitData, stringify, utlSetSessionStorage.
StartWrites(c) ==
    LET self == PageVisitTimeManager(c, c)
        currPageVisitData == PageVisitData(race.ctx[c].pageName, race.ctx[c].pageUrl, clock)
    IN
    /\ race.ctx[c].pc = "start75"
    /\ Step(c, IdleContext,
            utlSetSessionStorage(sessionStorage, self.prevPageVisitDataKeyName,
                                 stringify(currPageVisitData)),
            [race EXCEPT
                !.writes = @ + 1,
                !.slotId = race.writes + 1,
                !.slotWriter = c,
                !.displaced = IF race.slotId = 0 THEN @
                              ELSE @ \cup {[id |-> race.slotId, writer |-> race.slotWriter,
                                            by |-> c, how |-> "set"]}])

\* Context c calls stopPageVisitTimer().
CallStop(c) ==
    /\ race.ctx[c].pc = "idle"
    /\ Step(c, [IdleContext EXCEPT !.pc = "stop91"], sessionStorage, race)

\* if (utlCanUseSessionStorage()); pageVisitEndTime = dateNow().
StopCanUse(c) ==
    /\ race.ctx[c].pc = "stop91"
    /\ Step(c, IF utlCanUseSessionStorage(canUse)
               THEN [race.ctx[c] EXCEPT !.pc = "stop97", !.pageVisitEndTime = clock]
               ELSE [IdleContext EXCEPT !.ret = JsNull],
            sessionStorage, race)

\* pageVisitDataJsonStr = utlGetSessionStorage(...).
StopReads(c) ==
    LET self == PageVisitTimeManager(c, c) IN
    /\ race.ctx[c].pc = "stop97"
    /\ Step(c, [race.ctx[c] EXCEPT
                   !.pc = "stop98",
                   !.pageVisitDataJsonStr =
                       utlGetSessionStorage(sessionStorage, self.prevPageVisitDataKeyName),
                   !.readId = race.slotId],
            sessionStorage, race)

\* What stop returns from the text it read, or null.
StopResult(c) ==
    LET str == race.ctx[c].pageVisitDataJsonStr IN
    IF Truthy(str) /\ WellFormed(str.chars)
    THEN LET parsed == parse(str.chars)
         IN  JsObject([k \in DOMAIN parsed \cup {"pageVisitTime"} |->
                          IF k = "pageVisitTime"
                          THEN race.ctx[c].pageVisitEndTime - parsed.pageVisitStartTime
                          ELSE parsed[k]])
    ELSE JsNull

\* The history after context c returned the record it read.
Returning(c, history) ==
    [history EXCEPT !.once = @ \cup {race.ctx[c].readId},
                    !.twice = IF race.ctx[c].readId \in race.once
                              THEN @ \cup {race.ctx[c].readId} ELSE @]

\* Mutation: stop returns the record it read and leaves it in the slot.
StopClearsNoRemove(c) ==
    /\ race.ctx[c].pc = "stop98"
    /\ Step(c, [IdleContext EXCEPT !.ret = StopResult(c),
                                   !.retId = IF StopResult(c) = JsNull THEN 0
                                             ELSE race.ctx[c].readId],
            sessionStorage,
            IF StopResult(c) = JsNull THEN race ELSE Returning(c, race))

\* if (pageVisitDataJsonStr && hasJSON()): parse, pageVisitTime,
\* utlRemoveSessionStorage, return; else return null.
StopClears(c) ==
    LET self == PageVisitTimeManager(c, c) IN
    /\ race.ctx[c].pc = "stop98"
    /\ IF StopResult(c) = JsNull
       THEN Step(c, [IdleContext EXCEPT !.ret = JsNull], sessionStorage, race)
       ELSE Step(c, [IdleContext EXCEPT !.ret = StopResult(c),
                                        !.retId = race.ctx[c].readId],
                 utlRemoveSessionStorage(sessionStorage, self.prevPageVisitDataKeyName),
                 Returning(c, [race EXCEPT
                     !.slotId = 0,
                     !.slotWriter = "",
                     !.displaced =
                         IF race.slotId \in {0, race.ctx[c].readId} THEN @
                         ELSE @ \cup {[id |-> race.slotId, writer |-> race.slotWriter,
                                       by |-> c, how |-> "remove"]}]))

\* The calls of the two contexts interleave between storage operations.
NextRace ==
    \/ \E c \in Contexts, page \in Pages : CallStart(c, page.name, page.url)
    \/ \E c \in Contexts : StartCanUse(c)
    \/ \E c \in Contexts : StartChecks(c)
    \/ \E c \in Contexts : StartWrites(c)
    \/ \E c \in Contexts : CallStop(c)
    \/ \E c \in Contexts : StopCanUse(c)
    \/ \E c \in Contexts : StopReads(c)
    \/ \E c \in Contexts : StopClears(c)
    \/ Tick /\ UNCHANGED <<prevOp, ledger, elapsed, race>>

SpecRace == Init /\ [][NextRace]_vars

\* Whether the call handed a record out, to its caller or to the handler,
\* and the duration of that record.
Gave(o) == o.ret.kind = "object" \/ o.reported # <<>>

Duration(o) ==
    IF o.ret.kind = "object" THEN o.ret.obj.pageVisitTime
                             ELSE o.reported[1].pageVisitTime

\* The ledger after call o.  rec is the record the last successful start
\* put in the slot, for as long as the slot is not emptied; out counts the
\* calls that handed rec out; lastRec and lastOut are rec and its count for
\* the record call o handed out.
Account(l, o) ==
    [rec |-> IF o.wrote
             THEN JsObject([pageVisitStartTime |-> o.startNow, pageName |-> o.pageName,
                            pageUrl |-> o.pageUrl])
             ELSE IF o.after = JsNull THEN JsNull ELSE l.rec,
     out |-> IF o.wrote \/ o.after = JsNull THEN 0
             ELSE IF Gave(o) THEN l.out + 1 ELSE l.out,
     lastRec |-> IF Gave(o) THEN l.rec ELSE JsNull,
     lastOut |-> IF Gave(o) THEN l.out + 1 ELSE 0]

\* The ledger after another script overwrote the slot.
Overwritten(l) == [l EXCEPT !.rec = JsNull, !.out = 0]

\* The time of the first successful start and the sum of the durations
\* handed out, after call o.
Elapse(e, o) ==
    [first |-> IF e.first = -1 /\ o.wrote THEN o.startNow ELSE e.first,
     sum |-> IF Gave(o) THEN e.sum + Duration(o) ELSE e.sum]

\* Storage, JSON and the handler work; the last two calls are observed.
Next ==
    \/ /\ Call(Live, 0..1, {{}}, {{}}, {{}}, {{}})
       /\ prevOp' = Summary(lastOp)
       /\ UNCHANGED <<ledger, elapsed, race>>
    \/ Construct /\ UNCHANGED <<prevOp, ledger, elapsed, race>>
    \/ Environment /\ UNCHANGED <<prevOp, ledger, elapsed, race>>

Spec == Init /\ [][Next]_vars

\* Storage stays available, but its operations, JSON and the handler may fail
\* in a call of the first page's manager, and the slot may hold a foreign
\* text; the last call is observed.
StartFaults == {F \in FaultSets : F \subseteq StartSites}
StopFaults == {F \in FaultSets : F \subseteq StopSites}
RestartFaults == {F \in FaultSets : F \subseteq StopSites \cup StartSites}

NextFaults ==
    \/ /\ Call(Live, {0}, StartFaults, StopFaults, RestartFaults, FaultSets)
       /\ ledger' = Account(ledger, lastOp')
       /\ UNCHANGED <<prevOp, elapsed, race>>
    \/ Tick /\ UNCHANGED <<prevOp, ledger, elapsed, race>>
    \/ ForeignWrite /\ ledger' = Overwritten(ledger) /\ UNCHANGED <<prevOp, elapsed, race>>

SpecFaults == Init /\ [][NextFaults]_vars

\* Storage, JSON and the handler work and the availability of the storage
\* changes between calls; the records written and handed out are accounted.
NextLedger ==
    \/ /\ Call(Live, 0..1, {{}}, {{}}, {{}}, {{}})
       /\ ledger' = Account(ledger, lastOp')
       /\ elapsed' = Elapse(elapsed, lastOp')
       /\ UNCHANGED <<prevOp, race>>
    \/ Construct /\ UNCHANGED <<prevOp, ledger, elapsed, race>>
    \/ Environment /\ UNCHANGED <<prevOp, ledger, elapsed, race>>

SpecLedger == Init /\ [][NextLedger]_vars

----------------------------------------------------------------------------
(* Vocabulary of the properties. *)

\* The JSON text of a record being timed, written out token by token.
TextOf(pageName, pageUrl, start) ==
    <<[key |-> "{", tag |-> "punct", num |-> 0, str |-> ""],
      [key |-> "pageVisitStartTime", tag |-> "num", num |-> start, str |-> ""],
      [key |-> "pageName", tag |-> "str", num |-> 0, str |-> pageName],
      [key |-> "pageUrl", tag |-> "str", num |-> 0, str |-> pageUrl],
      [key |-> "}", tag |-> "punct", num |-> 0, str |-> ""]>>

\* The record stop returns for a visit of the page from start to end.
Finalized(pageName, pageUrl, start, end) ==
    JsObject([pageVisitStartTime |-> start, pageName |-> pageName, pageUrl |-> pageUrl,
              pageVisitTime |-> end - start])

\* The handler call that reports such a visit.
Report(handler, pageName, pageUrl, start, end) ==
    [handler |-> handler, pageName |-> pageName, pageUrl |-> pageUrl,
     pageVisitTime |-> end - start]

IsCall(o) == o.op # "none"
WasTiming(o) == o.before.kind = "string"

----------------------------------------------------------------------------
(* Properties. *)

\* C1: with storage available and working, a trackPreviousPageVisit call that
\* finds the slot empty (the first of a sequence) does not invoke the handler,
\* and one that follows a trackPreviousPageVisit call invokes it exactly once,
\* for the page of that earlier call; each call begins the timing of its page.
C1_ReportedOncePerPriorPage ==
    (lastOp.op = "track" /\ lastOp.canUse) =>
        /\ lastOp.wrote
        /\ lastOp.after = JsString(TextOf(lastOp.pageName, lastOp.pageUrl, lastOp.startNow))
        /\ lastOp.before = JsNull => lastOp.reported = <<>>
        /\ (prevOp.op = "track" /\ prevOp.wrote) =>
               lastOp.reported =
                   <<Report(managers[lastOp.inst].pageVisitTimeTrackingHandler,
                            prevOp.pageName, prevOp.pageUrl,
                            prevOp.startNow, lastOp.stopNow)>>

C1_Witness ==
    /\ prevOp.op = "track" /\ prevOp.wrote
    /\ lastOp.op = "track" /\ lastOp.canUse
    /\ Len(lastOp.reported) = 1
    /\ lastOp.pageName # prevOp.pageName

\* C2: whenever trackPreviousPageVisit invokes the handler, it does so once and
\* the arguments are the name, the URL and the duration (time of the call
\* minus start time) of the record the slot held before the call.
C2_ReportsPreviousRecord ==
    (lastOp.op = "track" /\ lastOp.reported # <<>>) =>
        \E page \in Pages, start \in 0..MaxClock :
            /\ lastOp.before = JsString(TextOf(page.name, page.url, start))
            /\ lastOp.reported =
                   <<Report(managers[lastOp.inst].pageVisitTimeTrackingHandler,
                            page.name, page.url, start, lastOp.stopNow)>>

C2_Witness ==
    /\ lastOp.op = "track"
    /\ Len(lastOp.reported) = 1
    /\ lastOp.reported[1].pageName # lastOp.pageName
    /\ lastOp.reported[1].pageUrl # lastOp.pageUrl
    /\ lastOp.reported[1].pageVisitTime > 0
    /\ lastOp.startNow > lastOp.stopNow

\* C3: no public call raises to its caller, whatever the slot holds and
\* whichever storage operation, JSON operation or handler fails during it:
\* each failure is logged; a failing stop returns null and a failing start
\* leaves the storage as it was.
C3_NeverRaises ==
    IsCall(lastOp) =>
        /\ ~lastOp.threw
        /\ Len(lastOp.warned) = Cardinality(lastOp.fired \ {"noJSON"})
        /\ lastOp.ret.kind \in
               (IF lastOp.op \in {"stop", "restart"} THEN {"null", "object"}
                                                     ELSE {"undefined"})
        /\ (lastOp.op = "stop" /\ lastOp.fired # {}) =>
               lastOp.ret = JsNull /\ lastOp.after = lastOp.before
        /\ (lastOp.op = "start" /\ lastOp.fired # {}) =>
               lastOp.after = lastOp.before /\ ~lastOp.wrote
        /\ (lastOp.op = "restart" /\ lastOp.fired \cap StopSites # {}) =>
               lastOp.ret = JsNull

C3_Witness ==
    /\ lastOp.op = "track"
    /\ lastOp.faults = {"set", "handler"}
    /\ Len(lastOp.warned) = 2
    /\ ~lastOp.threw

\* C4: start while the slot holds a record does not raise and leaves the slot
\* as it was, and the stop that follows returns that record: its name, its
\* URL and its start time.
C4_ConsecutiveStartKeepsRecord ==
    /\ (lastOp.op = "start" /\ WasTiming(lastOp)) =>
           /\ ~lastOp.threw
           /\ ~lastOp.wrote
           /\ lastOp.after = lastOp.before
           /\ Slot = lastOp.before
    /\ (prevOp.op = "start" /\ prevOp.timing /\ lastOp.op = "stop" /\ lastOp.canUse) =>
           \E page \in Pages, start \in 0..MaxClock :
               /\ lastOp.before = JsString(TextOf(page.name, page.url, start))
               /\ lastOp.ret = Finalized(page.name, page.url, start, lastOp.stopNow)

C4_Witness ==
    /\ prevOp.op = "start" /\ prevOp.timing
    /\ lastOp.op = "stop" /\ lastOp.canUse
    /\ lastOp.ret.kind = "object"
    /\ lastOp.ret.obj.pageVisitTime > 0

\* C5: start on an idle timer followed by stop returns a record with the name
\* and the URL given to start, whose duration is the clock at stop minus the
\* clock at start, and leaves the slot empty.
C5_StartThenStop ==
    (prevOp.op = "start" /\ prevOp.wrote /\ lastOp.op = "stop" /\ lastOp.canUse) =>
        /\ lastOp.ret = Finalized(prevOp.pageName, prevOp.pageUrl,
                                  prevOp.startNow, lastOp.stopNow)
        /\ lastOp.after = JsNull
        /\ Slot = JsNull

C5_Witness ==
    /\ prevOp.op = "start" /\ prevOp.wrote
    /\ lastOp.op = "stop" /\ lastOp.canUse
    /\ lastOp.ret.kind = "object"
    /\ lastOp.ret.obj.pageVisitTime = 0

\* C6: stop on an idle timer returns null, does not raise and leaves the slot
\* empty; stop on a timer holding a record returns a record, and the stop
\* that follows it returns null.
C6_StopTwice ==
    /\ (lastOp.op = "stop" /\ lastOp.before = JsNull) =>
           lastOp.ret = JsNull /\ ~lastOp.threw /\ lastOp.after = JsNull /\ Slot = JsNull
    /\ (lastOp.op = "stop" /\ WasTiming(lastOp) /\ lastOp.canUse) =>
           lastOp.ret.kind = "object"
    /\ (prevOp.op = "stop" /\ prevOp.returned /\ lastOp.op = "stop") =>
           lastOp.ret = JsNull

C6_Witness ==
    /\ prevOp.op = "stop" /\ prevOp.returned
    /\ lastOp.op = "stop" /\ lastOp.canUse
    /\ lastOp.ret = JsNull

\* C7: while session storage cannot be used every call is a no-op: nothing is
\* written, nothing raises, stop and restart return null, the handler is not
\* invoked and the slot keeps what it held.
C7_UnavailableIsNoOp ==
    (IsCall(lastOp) /\ ~lastOp.canUse) =>
        /\ ~lastOp.threw
        /\ lastOp.warned = <<>>
        /\ ~lastOp.wrote
        /\ lastOp.after = lastOp.before
        /\ Slot = lastOp.before
        /\ lastOp.reported = <<>>
        /\ lastOp.op \in {"stop", "restart"} => lastOp.ret = JsNull

C7_Witness ==
    /\ lastOp.op = "track" /\ ~lastOp.canUse
    /\ WasTiming(lastOp)
    /\ Slot = lastOp.before

\* C8: with storage available, restart leaves the slot holding the record of
\* its page with a start time read during the restart; it returns null from
\* an idle timer and the finalized previous record otherwise.
C8_RestartTimesNewPage ==
    (lastOp.op = "restart" /\ lastOp.canUse) =>
        /\ lastOp.after = JsString(TextOf(lastOp.pageName, lastOp.pageUrl, lastOp.startNow))
        /\ Slot = lastOp.after
        /\ lastOp.stopNow <= lastOp.startNow /\ lastOp.startNow <= clock
        /\ lastOp.before = JsNull => lastOp.ret = JsNull
        /\ WasTiming(lastOp) =>
               \E page \in Pages, start \in 0..MaxClock :
                   /\ lastOp.before = JsString(TextOf(page.name, page.url, start))
                   /\ lastOp.ret = Finalized(page.name, page.url, start, lastOp.stopNow)

C8_Witness ==
    /\ lastOp.op = "restart" /\ lastOp.canUse
    /\ lastOp.ret.kind = "object"
    /\ lastOp.ret.obj.pageName # lastOp.pageName
    /\ Slot = JsString(TextOf(lastOp.pageName, lastOp.pageUrl, lastOp.startNow))

\* C9: a record written through one manager is returned, or reported, by the
\* manager of a later page; and what a call does depends on the storage, its
\* availability and the clock, not on the manager that runs it (the handler
\* invoked is the manager's own).
C9_StateLivesInStorage ==
    /\ (prevOp.wrote /\ prevOp.inst # lastOp.inst /\ lastOp.canUse) =>
           /\ lastOp.op \in {"stop", "restart"} =>
                  lastOp.ret = Finalized(prevOp.pageName, prevOp.pageUrl,
                                         prevOp.startNow, lastOp.stopNow)
           /\ lastOp.op = "track" =>
                  lastOp.reported =
                      <<Report(managers[lastOp.inst].pageVisitTimeTrackingHandler,
                               prevOp.pageName, prevOp.pageUrl,
                               prevOp.startNow, lastOp.stopNow)>>
    /\ \A page \in Pages :
           LET first == managers[1]
               current == managers[Len(managers)]
               tracked(self) == trackPreviousPageVisit(self, sessionStorage, canUse, clock,
                                                       clock, page.name, page.url, {})
           IN  /\ stopPageVisitTimer(first, sessionStorage, canUse, clock, {})
                    = stopPageVisitTimer(current, sessionStorage, canUse, clock, {})
               /\ startPageVisitTimer(first, sessionStorage, canUse, clock,
                                      page.name, page.url, {})
                    = startPageVisitTimer(current, sessionStorage, canUse, clock,
                                          page.name, page.url, {})
               /\ restartPageVisitTimer(first, sessionStorage, canUse, clock, clock,
                                        page.name, page.url, {})
                    = restartPageVisitTimer(current, sessionStorage, canUse, clock, clock,
                                            page.name, page.url, {})
               /\ [tracked(first) EXCEPT !.reported = <<>>]
                    = [tracked(current) EXCEPT !.reported = <<>>]
               /\ Len(tracked(first).reported) = Len(tracked(current).reported)

C9_Witness ==
    /\ prevOp.wrote /\ prevOp.inst = 1
    /\ lastOp.inst = 2 /\ lastOp.op = "track"
    /\ Len(lastOp.reported) = 1
    /\ lastOp.reported[1].handler = 2

\* C10: the slot is absent or holds the JSON text of one record with a page
\* name, a page URL and a start time and no duration; a returned record has
\* a duration.
C10_SlotHoldsUnfinalizedRecord ==
    /\ \/ Slot = JsNull
       \/ \E page \in Pages, start \in 0..clock :
              Slot = JsString(TextOf(page.name, page.url, start))
    /\ lastOp.ret.kind = "object" =>
           DOMAIN lastOp.ret.obj =
               {"pageVisitStartTime", "pageName", "pageUrl", "pageVisitTime"}

C10_Witness ==
    /\ Slot.kind = "string"
    /\ lastOp.op = "restart"
    /\ lastOp.ret.kind = "object"
    /\ "pageVisitTime" \in DOMAIN lastOp.ret.obj

\* C11: within one trackPreviousPageVisit call the order is stop, start,
\* report: when the handler is invoked the record of the previous page has
\* been taken out of the slot and the slot already holds the new record of
\* the page of the call, which is what the call leaves there.
C11_StopStartReport ==
    (lastOp.op = "track" /\ lastOp.reported # <<>>) =>
        /\ lastOp.canUse
        /\ lastOp.stopNow <= lastOp.startNow
        /\ lastOp.seen = JsString(TextOf(lastOp.pageName, lastOp.pageUrl, lastOp.startNow))
        /\ lastOp.seen = lastOp.after

C11_Witness ==
    /\ lastOp.op = "track"
    /\ Len(lastOp.reported) = 1
    /\ lastOp.reported[1].pageName # lastOp.pageName
    /\ lastOp.seen # lastOp.before
    /\ lastOp.seen = Slot

\* Whether the slot holds a string that does not decode into a record.
Undecodable(v) == v.kind = "string" /\ ~WellFormed(v.chars)

\* C12: when the slot holds a string that cannot be decoded, it is treated
\* as no record found: stop returns null and raises nothing, and a start or
\* a restart for a page that follows leaves the slot as the same call on an
\* empty slot leaves it, holding the new record of that page.
C12_UndecodableIsNoRecord ==
    Undecodable(Slot) =>
        \A page \in Pages :
            LET self == managers[Len(managers)]
                idle == [sessionStorage EXCEPT ![self.prevPageVisitDataKeyName] = JsNull]
                stopped == stopPageVisitTimer(self, sessionStorage, TRUE, clock, {})
                started(store) == startPageVisitTimer(self, store, TRUE, clock,
                                                      page.name, page.url, {})
                restarted(store) == restartPageVisitTimer(self, store, TRUE, clock, clock,
                                                          page.name, page.url, {})
            IN  /\ stopped.ret = JsNull /\ ~stopped.threw
                /\ started(stopped.store).store = started(idle).store
                /\ restarted(stopped.store).store = restarted(idle).store
                /\ restarted(sessionStorage).store = restarted(idle).store

\* C13: restart returns exactly what its internal stop returned, a record
\* finalized at the time of the stop or null, whether the start that follows
\* succeeds, finds a record, fails to write or finds the storage unusable.
C13_RestartReturnsWhatStopReturned ==
    lastOp.op = "restart" =>
        /\ lastOp.ret = lastOp.stopped
        /\ lastOp.stopped.kind \in {"null", "object"}
        /\ lastOp.stopped.kind = "object" =>
               \E page \in Pages, start \in 0..MaxClock :
                   /\ lastOp.before = JsString(TextOf(page.name, page.url, start))
                   /\ lastOp.stopped = Finalized(page.name, page.url, start, lastOp.stopNow)

C13_Witness ==
    /\ lastOp.op = "restart"
    /\ "set" \in lastOp.faults
    /\ ~lastOp.wrote
    /\ lastOp.ret.kind = "object"
    /\ lastOp.ret.obj.pageName # lastOp.pageName

\* C14: when, inside restart or trackPreviousPageVisit, the stop returns the
\* record being timed and the start that follows writes nothing, the record
\* is still returned (restart) or reported (track), the slot is left empty,
\* and a stop that comes next returns null.
C14_FailedStartLosesNewPage ==
    (lastOp.op \in {"restart", "track"} /\ lastOp.stopped.kind = "object" /\ ~lastOp.wrote) =>
        /\ \E page \in Pages, start \in 0..MaxClock :
               /\ lastOp.before = JsString(TextOf(page.name, page.url, start))
               /\ lastOp.op = "restart" =>
                      lastOp.ret = Finalized(page.name, page.url, start, lastOp.stopNow)
               /\ lastOp.op = "track" =>
                      lastOp.reported =
                          <<Report(managers[lastOp.inst].pageVisitTimeTrackingHandler,
                                   page.name, page.url, start, lastOp.stopNow)>>
        /\ lastOp.after = JsNull
        /\ stopPageVisitTimer(managers[lastOp.inst], sessionStorage, canUse, clock, {}).ret
               = JsNull

C14_Witness ==
    /\ lastOp.op = "track"
    /\ lastOp.faults = {"set"}
    /\ Len(lastOp.reported) = 1
    /\ lastOp.reported[1].pageName # lastOp.pageName
    /\ Slot = JsNull

\* C15: when the handler raises during trackPreviousPageVisit, the call logs
\* the failure and returns normally, and the transition stays: the slot
\* holds the new record of the page of the call (nothing when the start
\* wrote nothing), the previous record is gone, and no call hands out a
\* record a second time, whatever failed before.
C15_HandlerFailureKeepsTransition ==
    /\ (lastOp.op = "track" /\ "handler" \in lastOp.faults) =>
           /\ ~lastOp.threw
           /\ lastOp.ret = JsUndefined
           /\ Len(lastOp.reported) = 1
           /\ lastOp.warned # <<>>
           /\ lastOp.after = (IF lastOp.wrote
                              THEN JsString(TextOf(lastOp.pageName, lastOp.pageUrl,
                                                   lastOp.startNow))
                              ELSE JsNull)
           /\ lastOp.seen = lastOp.after
           /\ Slot = lastOp.after =>
                  ledger.rec = (IF lastOp.wrote
                                THEN JsObject([pageVisitStartTime |-> lastOp.startNow,
                                               pageName |-> lastOp.pageName,
                                               pageUrl |-> lastOp.pageUrl])
                                ELSE JsNull)
    /\ Gave(lastOp) => ledger.lastRec # JsNull /\ ledger.lastOut = 1
    /\ ledger.out = 0

C15_Witness ==
    /\ lastOp.op = "track"
    /\ lastOp.faults = {"handler"}
    /\ lastOp.wrote
    /\ lastOp.reported[1].pageName # lastOp.pageName
    /\ Slot = JsString(TextOf(lastOp.pageName, lastOp.pageUrl, lastOp.startNow))
    /\ ledger.lastOut = 1

\* C17: in one context, with storage operations that succeed and an
\* availability that changes between calls, every record a stop or restart
\* returns or the handler is given is the record an earlier start wrote,
\* finalized at the time of the call, and it is handed out once: a record
\* still in the slot has not been handed out.
C17_HandedOutOnceAfterWritten ==
    /\ ledger.out = 0
    /\ Gave(lastOp) =>
           /\ ledger.lastRec # JsNull
           /\ ledger.lastOut = 1
           /\ lastOp.ret.kind = "object" =>
                  lastOp.ret = Finalized(ledger.lastRec.obj.pageName,
                                         ledger.lastRec.obj.pageUrl,
                                         ledger.lastRec.obj.pageVisitStartTime,
                                         lastOp.stopNow)
           /\ lastOp.reported # <<>> =>
                  lastOp.reported =
                      <<Report(managers[lastOp.inst].pageVisitTimeTrackingHandler,
                               ledger.lastRec.obj.pageName,
                               ledger.lastRec.obj.pageUrl,
                               ledger.lastRec.obj.pageVisitStartTime,
                               lastOp.stopNow)>>

C17_Witness ==
    /\ lastOp.op = "track"
    /\ Len(lastOp.reported) = 1
    /\ ledger.lastOut = 1
    /\ ledger.rec # JsNull
    /\ ledger.rec # ledger.lastRec
    /\ elapsed.sum = 2

\* C18: with a clock that does not run backwards, every duration handed out
\* is non-negative; in a restart the visit of the previous page ends no
\* later than the visit of the new page starts; and the durations handed
\* out sum to no more than the time since the first start.
C18_IntervalsDoNotOverlap ==
    /\ Gave(lastOp) => Duration(lastOp) >= 0
    /\ (Gave(lastOp) /\ lastOp.wrote) =>
           parse(lastOp.before.chars).pageVisitStartTime + Duration(lastOp)
               <= parse(lastOp.after.chars).pageVisitStartTime
    /\ elapsed.first = -1 => elapsed.sum = 0
    /\ elapsed.first >= 0 => elapsed.sum <= clock - elapsed.first

C18_Witness ==
    /\ lastOp.op = "restart"
    /\ Gave(lastOp) /\ lastOp.wrote
    /\ Duration(lastOp) = 1
    /\ lastOp.startNow > lastOp.stopNow
    /\ elapsed.first = 0
    /\ elapsed.sum = 1
    /\ clock = 2

\* The records that left the slot and that no stop returned or still holds.
Lost ==
    {x \in race.displaced :
        /\ x.id \notin race.once
        /\ \A c \in Contexts : race.ctx[c].readId # x.id}

\* C16: stop's read and removal, and start's check and write, are separate
\* storage operations: a record is returned twice, or leaves the slot
\* without being returned, only in executions where the calls of the two
\* contexts interleave; the witness is an execution where both happen.
C16_AnomaliesNeedInterleaving ==
    ~race.overlapped => (race.twice = {} /\ race.displaced = {})

C16_Witness ==
    /\ \A c \in Contexts : race.ctx[c].pc = "idle" /\ race.ctx[c].ret.kind = "object"
    /\ race.ctx["A"].ret = race.ctx["B"].ret
    /\ race.ctx["A"].retId = race.ctx["B"].retId
    /\ race.ctx["A"].retId \in race.twice
    /\ \E x \in Lost : x.how = "set" /\ x.writer # x.by

====
